---- MODULE Spec2Model ----
(***************************************************************************)
(* Subscription lifecycle of MaximBraer/EffectiveMobile: the service layer *)
(* (SubscriptionService), the repositories it calls (ServiceRepository,    *)
(* SubscriptionRepository) and the two PostgreSQL tables with their        *)
(* constraints.  Every SQL statement is one atomic step; a request is the  *)
(* sequence of statements its handler issues, so two requests interleave   *)
(* between statements.                                                     *)
(***************************************************************************)
EXTENDS Integers, Sequences, FiniteSets, TLC

VARIABLES service, subscription, service_seq, subscription_seq,
          call, svcRace, subRace

vars == <<service, subscription, service_seq, subscription_seq,
          call, svcRace, subRace>>

----------------------------------------------------------------------------
(* Bounds of the model *)

\* values the subscription.id BIGSERIAL sequence may hand out
MaxSubscriptionSeq == 2
\* values the service.id sequence may hand out
MaxServiceSeq == 2

\* the concurrent callers (HTTP requests in flight)
Procs == {"p1", "p2"}

----------------------------------------------------------------------------
(* Nullable values (Go pointers, SQL NULL): <<>> is nil, <<x>> points to x *)

None == <<>>
Some(x) == <<x>>
IsSome(o) == Len(o) = 1
Val(o) == o[1]

----------------------------------------------------------------------------
(* Strings are sequences of characters, so trimming and parsing are real *)

EmptyStr == <<>>
NullStr == <<"n", "u", "l", "l">>

DigitVal == ("0" :> 0) @@ ("1" :> 1) @@ ("2" :> 2) @@ ("3" :> 3) @@ ("4" :> 4)
            @@ ("5" :> 5) @@ ("6" :> 6) @@ ("7" :> 7) @@ ("8" :> 8) @@ ("9" :> 9)
IsDigit(c) == c \in DOMAIN DigitVal

IsSpace(c) == c = " "

RECURSIVE TrimLeft(_)
TrimLeft(s) == IF s # <<>> /\ IsSpace(Head(s)) THEN TrimLeft(Tail(s)) ELSE s

RECURSIVE TrimRight(_)
TrimRight(s) ==
    IF s # <<>> /\ IsSpace(s[Len(s)]) THEN TrimRight(SubSeq(s, 1, Len(s) - 1)) ELSE s

\* strings.TrimSpace
TrimSpace(s) == TrimRight(TrimLeft(s))

----------------------------------------------------------------------------
(* Months.  A time.Time truncated to the first of a month is the number of  *)
(* months since year 0; the zero time.Time{} is 1 January of year 1.        *)

MonthIndex(year, month) == year * 12 + (month - 1)
ZeroTime == MonthIndex(1, 1)

Before(a, b) == a < b

\* time.Parse("01-2006", s) followed by time.Date(year, month, 1, ...)
ParseMonth(s) ==
    IF /\ Len(s) = 7
       /\ IsDigit(s[1]) /\ IsDigit(s[2])
       /\ s[3] = "-"
       /\ IsDigit(s[4]) /\ IsDigit(s[5]) /\ IsDigit(s[6]) /\ IsDigit(s[7])
       /\ (DigitVal[s[1]] * 10 + DigitVal[s[2]]) \in 1..12
    THEN [ok |-> TRUE,
          t  |-> MonthIndex(DigitVal[s[4]] * 1000 + DigitVal[s[5]] * 100
                            + DigitVal[s[6]] * 10 + DigitVal[s[7]],
                            DigitVal[s[1]] * 10 + DigitVal[s[2]])]
    ELSE [ok |-> FALSE, t |-> ZeroTime]

----------------------------------------------------------------------------
(* The two tables and their constraints *)

\* the table declared without the CHECK on end_date
CheckPriceOnly(r) == r.price_rub >= 0

\* CHECK (price_rub >= 0), CHECK (end_date IS NULL OR end_date >= start_date);
\* the two date_trunc checks hold of every month value
CheckConstraints(r) ==
    /\ r.price_rub >= 0
    /\ (IsSome(r.end_date) => Val(r.end_date) >= r.start_date)

\* the unique index declared on (id, user_id, service_id, start_date)
UniqueOKWithID(r, others) ==
    \A o \in others :
        ~(o.id = r.id /\ o.user_id = r.user_id /\ o.service_id = r.service_id
          /\ o.start_date = r.start_date)

\* UNIQUE (user_id, service_id, start_date) against the other rows
UniqueOK(r, others) ==
    \A o \in others :
        ~(o.user_id = r.user_id /\ o.service_id = r.service_id
          /\ o.start_date = r.start_date)

\* service_id REFERENCES service(id)
ForeignKeyOK(r) == \E s \in service : s.id = r.service_id

\* the error PostgreSQL raises for writing row r next to the rows `others`
\* ("" when the row is accepted): CHECK constraints are evaluated before the
\* unique index is touched, the foreign key when the statement ends
StatementError(r, others) ==
    IF ~CheckConstraints(r) THEN "CheckViolation"
    ELSE IF ~UniqueOK(r, others) THEN "UniqueViolation"
    ELSE IF ~ForeignKeyOK(r) THEN "ForeignKeyViolation"
    ELSE ""

\* service.name is unique: the INSERT of AddService fails on an existing name
ServiceNameTaken(name) == \E s \in service : s.name = name

----------------------------------------------------------------------------
(* Requests in flight *)

IdleCall == [op |-> "none", pc |-> "idle", id |-> 0, name |-> None,
             price |-> None, user |-> "", start |-> None, end |-> None,
             serviceID |-> None, res |-> "", rid |-> 0, view |-> None]

Done(op, res, rid) ==
    [IdleCall EXCEPT !.op = op, !.pc = "done", !.res = res, !.rid = rid]

CanStart(p) == call[p].pc \in {"idle", "done"}

InFlight(p) == call[p].pc \in {"getsvc", "addsvc", "insert", "exec"}

\* where a request continues once its service id is resolved
AfterService(op) == IF op = "create" THEN "insert" ELSE "exec"

\* a stored row whose key is (userID, the service named name, start)
KeyStored(userID, name, start) ==
    \E r \in subscription : \E s \in service :
        /\ s.id = r.service_id /\ s.name = name
        /\ r.user_id = userID /\ r.start_date = start

----------------------------------------------------------------------------
(* SubscriptionService.CreateSubscription *)

\* the validation with !start.Before(ed) in place of ed.Before(start)
CreateValidateStrict(startDate, endDate) ==
    LET sd == ParseMonth(startDate) IN
    /\ sd.ok
    /\ \/ endDate = EmptyStr
       \/ LET ed == ParseMonth(endDate) IN ed.ok /\ Before(sd.t, ed.t)

\* the validation of the two date strings: TRUE when no ErrValidation
CreateValidate(startDate, endDate) ==
    LET sd == ParseMonth(startDate) IN
    /\ sd.ok
    /\ \/ endDate = EmptyStr
       \/ LET ed == ParseMonth(endDate) IN ed.ok /\ ~Before(ed.t, sd.t)

\* the end date left nil whatever the request says
CreateEndDateDropped(endDate) == None

\* the end date handed to the repository: nil for "", else the parsed month
CreateEndDate(endDate) ==
    IF endDate = EmptyStr THEN None ELSE Some(ParseMonth(endDate).t)

\* another create in flight for the same key while no row has it yet
CreateRivals(p, serviceName, userID, startDate) ==
    {q \in Procs \ {p} :
        /\ call[q].op = "create" /\ InFlight(q)
        /\ call[q].user = userID
        /\ TrimSpace(Val(call[q].name)) = TrimSpace(serviceName)
        /\ ParseMonth(Val(call[q].start)).t = ParseMonth(startDate).t
        /\ ~KeyStored(userID, TrimSpace(serviceName), ParseMonth(startDate).t)}

CreateStart(p, serviceName, price, userID, startDate, endDate) ==
    /\ CanStart(p)
    /\ IF CreateValidate(startDate, endDate)
       THEN /\ call' = [call EXCEPT ![p] =
                   [IdleCall EXCEPT !.op = "create", !.pc = "getsvc",
                                    !.name = Some(serviceName),
                                    !.price = Some(price), !.user = userID,
                                    !.start = Some(startDate),
                                    !.end = Some(endDate)]]
            /\ subRace' = LET rivals == CreateRivals(p, serviceName, userID, startDate)
                          IN IF rivals = {} THEN subRace \ {p}
                             ELSE subRace \cup rivals \cup {p}
       ELSE /\ call' = [call EXCEPT ![p] = Done("create", "ErrValidation", 0)]
            /\ subRace' = subRace \ {p}
    /\ svcRace' = svcRace \ {p}
    /\ UNCHANGED <<service, subscription, service_seq, subscription_seq>>

----------------------------------------------------------------------------
(* ServiceRepository.GetOrCreateServiceID: GetServiceID, then AddService *)

\* the rows SELECT id FROM service WHERE name = $1 returns
GetServiceID(name) == {s \in service : s.name = name}

\* another caller between its lookup miss and its insert of the same name
ServiceRivals(p) ==
    {q \in Procs \ {p} :
        /\ call[q].pc = "addsvc"
        /\ TrimSpace(Val(call[q].name)) = TrimSpace(Val(call[p].name))
        /\ ~ServiceNameTaken(TrimSpace(Val(call[p].name)))}

LookupService(p) ==
    /\ call[p].pc = "getsvc"
    /\ LET found == GetServiceID(Val(call[p].name)) IN
       IF found # {}
       THEN /\ call' = [call EXCEPT ![p].serviceID = Some((CHOOSE s \in found : TRUE).id),
                                    ![p].pc = AfterService(call[p].op)]
            /\ UNCHANGED svcRace
       ELSE /\ call' = [call EXCEPT ![p].pc = "addsvc"]
            /\ svcRace' = IF ServiceRivals(p) = {} THEN svcRace
                          ELSE svcRace \cup ServiceRivals(p) \cup {p}
    /\ UNCHANGED <<service, subscription, service_seq, subscription_seq,
                   subRace>>

AddService(p) ==
    /\ call[p].pc = "addsvc"
    /\ LET name == TrimSpace(Val(call[p].name)) IN
       IF name = EmptyStr
       THEN /\ call' = [call EXCEPT ![p] = Done(call[p].op, "ErrEmptyServiceName", 0)]
            /\ UNCHANGED <<service, service_seq>>
       ELSE /\ service_seq < MaxServiceSeq
            /\ service_seq' = service_seq + 1
            /\ IF ServiceNameTaken(name)
               THEN /\ call' = [call EXCEPT ![p] =
                                   Done(call[p].op, "ErrServiceNameExists", 0)]
                    /\ UNCHANGED service
               ELSE /\ service' = service \cup {[id |-> service_seq + 1, name |-> name]}
                    /\ call' = [call EXCEPT ![p].serviceID = Some(service_seq + 1),
                                            ![p].pc = AfterService(call[p].op)]
    /\ UNCHANGED <<subscription, subscription_seq, svcRace, subRace>>

----------------------------------------------------------------------------
(* SubscriptionRepository.CreateSubscription: one INSERT ... RETURNING id *)

CreateRow(c, id) ==
    [id |-> id, user_id |-> c.user, service_id |-> Val(c.serviceID),
     price_rub |-> Val(c.price), start_date |-> ParseMonth(Val(c.start)).t,
     end_date |-> CreateEndDate(Val(c.end))]

\* what the repository returns for the error of the INSERT
CreateError(pgErr) ==
    IF pgErr = "UniqueViolation" THEN "ErrSubscriptionAlreadyExists" ELSE pgErr

InsertSubscription(p) ==
    /\ call[p].op = "create" /\ call[p].pc = "insert"
    /\ subscription_seq < MaxSubscriptionSeq
    /\ subscription_seq' = subscription_seq + 1
    /\ LET row == CreateRow(call[p], subscription_seq + 1)
           pgErr == StatementError(row, subscription)
       IN IF pgErr = ""
          THEN /\ subscription' = subscription \cup {row}
               /\ call' = [call EXCEPT ![p] = Done("create", "ok", row.id)]
          ELSE /\ call' = [call EXCEPT ![p] = Done("create", CreateError(pgErr), 0)]
               /\ UNCHANGED subscription
    /\ UNCHANGED <<service, service_seq, svcRace, subRace>>

----------------------------------------------------------------------------
(* SubscriptionService.UpdateSubscription *)

\* The request's price, start date and end date are read only after the
\* service id is resolved, and by no other request: they are drawn in
\* UpdateExec, the step that reads them.
UpdateStart(p, id, serviceName) ==
    /\ CanStart(p)
    /\ call' = [call EXCEPT ![p] =
           [IdleCall EXCEPT !.op = "update",
                            !.pc = IF IsSome(serviceName) THEN "getsvc" ELSE "exec",
                            !.id = id, !.name = serviceName]]
    /\ svcRace' = svcRace \ {p}
    /\ subRace' = subRace \ {p}
    /\ UNCHANGED <<service, subscription, service_seq, subscription_seq>>

\* endDate is the clear sentinel: "" or "null"
IsClear(endDate) == endDate = EmptyStr \/ endDate = NullStr

\* the validation of the optional date strings: TRUE when no ErrValidation
UpdateValidate(startDate, endDate) ==
    /\ (IsSome(startDate) => ParseMonth(Val(startDate)).ok)
    /\ (IsSome(endDate) /\ ~IsClear(Val(endDate)) =>
           /\ ParseMonth(Val(endDate)).ok
           /\ (IsSome(startDate) =>
                  ~Before(ParseMonth(Val(endDate)).t, ParseMonth(Val(startDate)).t)))

\* updateParams.EndDate: &time.Time{} for the clear sentinel
UpdateEndDate(endDate) ==
    IF ~IsSome(endDate) THEN None
    ELSE IF IsClear(Val(endDate)) THEN Some(ZeroTime)
    ELSE Some(ParseMonth(Val(endDate)).t)

\* repository.UpdateSubscriptionParams as the service fills it
UpdateParams(c, price, startDate, endDate) ==
    [ID |-> c.id, ServiceID |-> c.serviceID, PriceRub |-> price,
     StartDate |-> IF IsSome(startDate) THEN Some(ParseMonth(Val(startDate)).t) ELSE None,
     EndDate |-> UpdateEndDate(endDate)]

----------------------------------------------------------------------------
(* SubscriptionRepository.UpdateSubscription: one UPDATE ... WHERE id = $n *)

\* Set("service_id", *p.ServiceID)
SetServiceID(r, p) ==
    IF IsSome(p.ServiceID) THEN [r EXCEPT !.service_id = Val(p.ServiceID)] ELSE r

\* Set("end_date", p.EndDate) issued without the nil test: an absent end
\* date is written as NULL
SetColumnsEndAlways(r, p) ==
    [r EXCEPT !.price_rub = IF IsSome(p.PriceRub) THEN Val(p.PriceRub) ELSE @,
              !.start_date = IF IsSome(p.StartDate) THEN Val(p.StartDate) ELSE @,
              !.end_date = IF IsSome(p.EndDate) THEN Some(Val(p.EndDate)) ELSE None]

\* the Set clauses for price_rub, start_date and end_date
SetColumns(r, p) ==
    [r EXCEPT !.price_rub = IF IsSome(p.PriceRub) THEN Val(p.PriceRub) ELSE @,
              !.start_date = IF IsSome(p.StartDate) THEN Val(p.StartDate) ELSE @,
              !.end_date = IF IsSome(p.EndDate) THEN Some(Val(p.EndDate)) ELSE @]

\* squirrel refuses to build an UPDATE without a Set clause
NoSetClause(p) ==
    ~IsSome(p.ServiceID) /\ ~IsSome(p.PriceRub) /\ ~IsSome(p.StartDate)
    /\ ~IsSome(p.EndDate)

\* what the repository returns for the error of the UPDATE
UpdateError(pgErr) == pgErr

\* the outcome of the statement: "ok" or the error returned
UpdateResult(p) ==
    IF NoSetClause(p) THEN "ErrBuildQuery"
    ELSE LET target == {r \in subscription : r.id = p.ID} IN
         IF target = {} THEN "ErrSubscriptionNotFound"
         ELSE LET old == CHOOSE r \in target : TRUE
                  pgErr == StatementError(SetColumns(SetServiceID(old, p), p),
                                          subscription \ {old})
              IN IF pgErr = "" THEN "ok" ELSE UpdateError(pgErr)

\* the table after a successful UPDATE
UpdatedRows(p) ==
    {IF r.id = p.ID THEN SetColumns(SetServiceID(r, p), p) ELSE r : r \in subscription}

UpdateExec(p, price, startDate, endDate) ==
    /\ call[p].op = "update" /\ call[p].pc = "exec"
    /\ IF ~UpdateValidate(startDate, endDate)
       THEN /\ call' = [call EXCEPT ![p] = Done("update", "ErrValidation", 0)]
            /\ UNCHANGED subscription
       ELSE LET params == UpdateParams(call[p], price, startDate, endDate)
                res == UpdateResult(params)
            IN /\ call' = [call EXCEPT ![p] = Done("update", res, 0)]
               /\ subscription' = IF res = "ok" THEN UpdatedRows(params)
                                  ELSE subscription
    /\ UNCHANGED <<service, service_seq, subscription_seq, svcRace, subRace>>

----------------------------------------------------------------------------
(* DeleteSubscription and GetSubscription: one statement each *)

\* the delete followed by the removal of the service no row refers to any more
DeleteSubscriptionAndService(p, id) ==
    /\ CanStart(p)
    /\ IF \E r \in subscription : r.id = id
       THEN /\ subscription' = {r \in subscription : r.id # id}
            /\ service' = {sv \in service :
                              \E r \in subscription : r.id # id /\ r.service_id = sv.id}
            /\ call' = [call EXCEPT ![p] = Done("delete", "ok", 0)]
       ELSE /\ call' = [call EXCEPT ![p] = Done("delete", "ErrSubscriptionNotFound", 0)]
            /\ UNCHANGED <<subscription, service>>
    /\ svcRace' = svcRace \ {p}
    /\ subRace' = subRace \ {p}
    /\ UNCHANGED <<service_seq, subscription_seq>>

DeleteSubscription(p, id) ==
    /\ CanStart(p)
    /\ IF \E r \in subscription : r.id = id
       THEN /\ subscription' = {r \in subscription : r.id # id}
            /\ call' = [call EXCEPT ![p] = Done("delete", "ok", 0)]
       ELSE /\ call' = [call EXCEPT ![p] = Done("delete", "ErrSubscriptionNotFound", 0)]
            /\ UNCHANGED subscription
    /\ svcRace' = svcRace \ {p}
    /\ subRace' = subRace \ {p}
    /\ UNCHANGED <<service, service_seq, subscription_seq>>

\* SELECT ... FROM subscription s JOIN service sv ON s.service_id = sv.id
\* WHERE s.id = $1 over the given tables: the rows scanned into
\* repository.Subscription
SelectFrom(subscriptions, services, id) ==
    {[ID |-> x[1].id, ServiceName |-> x[2].name, Price |-> x[1].price_rub,
      UserID |-> x[1].user_id, StartDate |-> x[1].start_date,
      EndDate |-> x[1].end_date] :
        x \in {y \in subscriptions \X services :
                  y[1].id = id /\ y[1].service_id = y[2].id}}

SelectSubscription(id) == SelectFrom(subscription, service, id)

GetSubscription(p, id) ==
    /\ CanStart(p)
    /\ LET rows == SelectSubscription(id) IN
       IF rows = {}
       THEN call' = [call EXCEPT ![p] = Done("get", "ErrSubscriptionNotFound", 0)]
       ELSE call' = [call EXCEPT ![p] =
                        [Done("get", "ok", 0) EXCEPT !.view = Some(CHOOSE v \in rows : TRUE)]]
    /\ svcRace' = svcRace \ {p}
    /\ subRace' = subRace \ {p}
    /\ UNCHANGED <<service, subscription, service_seq, subscription_seq>>

----------------------------------------------------------------------------
(* ServiceRepository.DeleteService: the reference count, then the DELETE *)

\* the delete issued without the reference count
CountReferencesSkipped(p, id) ==
    /\ CanStart(p)
    /\ call' = [call EXCEPT ![p] =
                   [IdleCall EXCEPT !.op = "delsvc", !.pc = "delsvc", !.id = id]]
    /\ svcRace' = svcRace \ {p}
    /\ subRace' = subRace \ {p}
    /\ UNCHANGED <<service, subscription, service_seq, subscription_seq>>

\* SELECT COUNT FROM subscription WHERE service_id = $1; count > 0 is
\* ErrServiceInUse
CountReferences(p, id) ==
    /\ CanStart(p)
    /\ IF Cardinality({r \in subscription : r.service_id = id}) > 0
       THEN call' = [call EXCEPT ![p] = Done("delsvc", "ErrServiceInUse", 0)]
       ELSE call' = [call EXCEPT ![p] =
                        [IdleCall EXCEPT !.op = "delsvc", !.pc = "delsvc", !.id = id]]
    /\ svcRace' = svcRace \ {p}
    /\ subRace' = subRace \ {p}
    /\ UNCHANGED <<service, subscription, service_seq, subscription_seq>>

\* the DELETE on a table without the foreign key of subscription.service_id
DeleteServiceUnrestricted(p) ==
    /\ call[p].op = "delsvc" /\ call[p].pc = "delsvc"
    /\ LET id == call[p].id IN
       IF \E sv \in service : sv.id = id
       THEN /\ service' = {sv \in service : sv.id # id}
            /\ call' = [call EXCEPT ![p] = Done("delsvc", "ok", 0)]
       ELSE /\ call' = [call EXCEPT ![p] = Done("delsvc", "ErrServiceNotFound", 0)]
            /\ UNCHANGED service
    /\ UNCHANGED <<subscription, service_seq, subscription_seq, svcRace, subRace>>

\* DELETE FROM service WHERE id = $1: refused by ON DELETE RESTRICT while a
\* subscription refers to the row (the error is returned as it is); zero
\* rows affected is ErrServiceNotFound
DeleteService(p) ==
    /\ call[p].op = "delsvc" /\ call[p].pc = "delsvc"
    /\ LET id == call[p].id IN
       IF \E sv \in service : sv.id = id /\ \E r \in subscription : r.service_id = id
       THEN /\ call' = [call EXCEPT ![p] = Done("delsvc", "ForeignKeyViolation", 0)]
            /\ UNCHANGED service
       ELSE IF \E sv \in service : sv.id = id
       THEN /\ service' = {sv \in service : sv.id # id}
            /\ call' = [call EXCEPT ![p] = Done("delsvc", "ok", 0)]
       ELSE /\ call' = [call EXCEPT ![p] = Done("delsvc", "ErrServiceNotFound", 0)]
            /\ UNCHANGED service
    /\ UNCHANGED <<subscription, service_seq, subscription_seq, svcRace, subRace>>

----------------------------------------------------------------------------
(* SubscriptionRepository.ListSubscriptions: the count query, then the data *)
(* query                                                                    *)

\* baseSubscriptionQuery over the whole tables: subscription joined to service
SelectAll ==
    {[ID |-> x[1].id, ServiceName |-> x[2].name, Price |-> x[1].price_rub,
      UserID |-> x[1].user_id, StartDate |-> x[1].start_date,
      EndDate |-> x[1].end_date] :
        x \in {y \in subscription \X service : y[1].service_id = y[2].id}}

\* applySubscriptionFilters: Where user_id, Where sv.name, each when non-nil
ApplySubscriptionFilters(rows, userID, serviceName) ==
    {v \in rows : /\ (IsSome(userID) => v.UserID = Val(userID))
                  /\ (IsSome(serviceName) => v.ServiceName = Val(serviceName))}

\* ORDER BY s.id: the rows as a sequence of ascending ID
RECURSIVE OrderByID(_)
OrderByID(rows) ==
    IF rows = {} THEN <<>>
    ELSE LET first == CHOOSE v \in rows : \A w \in rows : v.ID <= w.ID
         IN <<first>> \o OrderByID(rows \ {first})

\* LIMIT counted from the first row, OFFSET rows cut from what is left
LimitBeforeOffset(rows, limit, offset) ==
    LET limited == IF limit > 0 /\ limit < Len(rows) THEN SubSeq(rows, 1, limit)
                   ELSE rows
    IN IF offset >= 0 THEN SubSeq(limited, offset + 1, Len(limited)) ELSE limited

\* Limit(p.Limit) when p.Limit > 0, Offset(p.Offset) when p.Offset >= 0:
\* OFFSET rows are skipped, then at most LIMIT rows are returned
LimitOffset(rows, limit, offset) ==
    LET skipped == IF offset >= 0 THEN SubSeq(rows, offset + 1, Len(rows)) ELSE rows
    IN IF limit > 0 /\ limit < Len(skipped) THEN SubSeq(skipped, 1, limit)
       ELSE skipped

\* the count query; the parameters and the total wait for the data query
ListCount(p, userID, serviceName, limit, offset) ==
    /\ CanStart(p)
    /\ call' = [call EXCEPT ![p] =
           [IdleCall EXCEPT
               !.op = "list", !.pc = "listdata",
               !.view = Some([UserID |-> userID, ServiceName |-> serviceName,
                              Limit |-> limit, Offset |-> offset,
                              Total |-> Cardinality(ApplySubscriptionFilters(
                                            SelectAll, userID, serviceName))])]]
    /\ svcRace' = svcRace \ {p}
    /\ subRace' = subRace \ {p}
    /\ UNCHANGED <<service, subscription, service_seq, subscription_seq>>

\* the data query; returns the rows and the total of the count query
ListData(p) ==
    /\ call[p].op = "list" /\ call[p].pc = "listdata"
    /\ LET q == Val(call[p].view)
           rows == LimitOffset(OrderByID(ApplySubscriptionFilters(
                                   SelectAll, q.UserID, q.ServiceName)),
                               q.Limit, q.Offset)
       IN call' = [call EXCEPT ![p] =
              [Done("list", "ok", 0) EXCEPT
                  !.view = Some([Rows |-> rows, Total |-> q.Total])]]
    /\ UNCHANGED <<service, subscription, service_seq, subscription_seq,
                   svcRace, subRace>>

----------------------------------------------------------------------------
(* StatsRepository.GetTotalCost and StatsService.GetTotalCost: the one     *)
(* query for the candidate subscriptions, then the cost computed from them *)

\* the period clauses asking for a start inside the period: start_date
\* between StartDate and EndDate
StatsCandidatesStartInside(userID, serviceName, startDate, endDate) ==
    {[ID |-> x[1].id, StartDate |-> x[1].start_date, EndDate |-> x[1].end_date,
      PriceRub |-> x[1].price_rub, UserID |-> x[1].user_id,
      ServiceName |-> x[2].name] :
        x \in {y \in subscription \X service :
                 /\ y[1].service_id = y[2].id
                 /\ (IsSome(userID) => y[1].user_id = Val(userID))
                 /\ (IsSome(serviceName) => y[2].name = Val(serviceName))
                 /\ (IsSome(endDate) => y[1].start_date <= Val(endDate))
                 /\ (IsSome(startDate) => y[1].start_date >= Val(startDate))}}

\* the Where clauses of the query over subscription joined to service:
\* user_id and sv.name when non-nil; with both period bounds
\* start_date <= EndDate and (end_date IS NULL or end_date >= StartDate),
\* with one bound the clause of that bound alone
StatsCandidates(userID, serviceName, startDate, endDate) ==
    {[ID |-> x[1].id, StartDate |-> x[1].start_date, EndDate |-> x[1].end_date,
      PriceRub |-> x[1].price_rub, UserID |-> x[1].user_id,
      ServiceName |-> x[2].name] :
        x \in {y \in subscription \X service :
                 /\ y[1].service_id = y[2].id
                 /\ (IsSome(userID) => y[1].user_id = Val(userID))
                 /\ (IsSome(serviceName) => y[2].name = Val(serviceName))
                 /\ (IsSome(endDate) => y[1].start_date <= Val(endDate))
                 /\ (IsSome(startDate) =>
                        \/ ~IsSome(y[1].end_date)
                        \/ Val(y[1].end_date) >= Val(startDate))}}

\* rows.Next and rows.Scan: the rows in the order the server yields them
RECURSIVE ScanRows(_)
ScanRows(rows) ==
    IF rows = {} THEN <<>>
    ELSE LET row == CHOOSE v \in rows : TRUE
         IN <<row>> \o ScanRows(rows \ {row})

\* monthsBetween: both times are truncated to their month, then the loop
\* for start.Before(end) || start.Equal(end) { start.AddDate(0, 1, 0); months++ }
RECURSIVE MonthsBetween(_, _)
MonthsBetween(start, end) ==
    IF start < end \/ start = end THEN 1 + MonthsBetween(start + 1, end) ELSE 0

\* the subscription's own start whatever the period
IntersectionStartUnclamped(subscriptionStart, periodStart) == subscriptionStart

\* intersectionStart: the later of the subscription's and the period's start
IntersectionStart(subscriptionStart, periodStart) ==
    IF ~IsSome(periodStart) THEN subscriptionStart
    ELSE IF subscriptionStart > Val(periodStart) THEN subscriptionStart
    ELSE Val(periodStart)

\* an open-ended subscription ends at the current month whatever the period
IntersectionEndAtNow(subscriptionEnd, periodEnd, now) ==
    IF ~IsSome(subscriptionEnd) THEN now
    ELSE IF ~IsSome(periodEnd) THEN Val(subscriptionEnd)
    ELSE IF Val(subscriptionEnd) < Val(periodEnd) THEN Val(subscriptionEnd)
    ELSE Val(periodEnd)

\* intersectionEnd: for an open-ended subscription the period's end, or the
\* first of the current month without one; for a closed one the earlier of
\* its end and the period's end
IntersectionEnd(subscriptionEnd, periodEnd, now) ==
    IF ~IsSome(subscriptionEnd)
    THEN IF ~IsSome(periodEnd) THEN now ELSE Val(periodEnd)
    ELSE IF ~IsSome(periodEnd) THEN Val(subscriptionEnd)
    ELSE IF Val(subscriptionEnd) < Val(periodEnd) THEN Val(subscriptionEnd)
    ELSE Val(periodEnd)

\* without a period a closed subscription is charged to the current month
\* at most
CalculateIntersectionMonthsToNow(subscriptionStart, subscriptionEnd, periodStart, periodEnd, now) ==
    LET intersectionStart == IntersectionStart(subscriptionStart, periodStart)
        intersectionEnd ==
            IF ~IsSome(periodStart) /\ ~IsSome(periodEnd)
                  /\ IsSome(subscriptionEnd) /\ Val(subscriptionEnd) > now
            THEN now
            ELSE IntersectionEnd(subscriptionEnd, periodEnd, now)
    IN IF intersectionStart > intersectionEnd THEN 0
       ELSE MonthsBetween(intersectionStart, intersectionEnd)

\* calculateIntersectionMonths; now is the month of time.Now()
CalculateIntersectionMonths(subscriptionStart, subscriptionEnd, periodStart, periodEnd, now) ==
    IF ~IsSome(periodStart) /\ ~IsSome(periodEnd)
    THEN IF ~IsSome(subscriptionEnd) THEN MonthsBetween(subscriptionStart, now)
         ELSE MonthsBetween(subscriptionStart, Val(subscriptionEnd))
    ELSE LET intersectionStart == IntersectionStart(subscriptionStart, periodStart)
             intersectionEnd == IntersectionEnd(subscriptionEnd, periodEnd, now)
         IN IF intersectionStart > intersectionEnd THEN 0
            ELSE MonthsBetween(intersectionStart, intersectionEnd)

\* calculateTotalCost: totalCost += sub.PriceRub * months over the slice
RECURSIVE CalculateTotalCost(_, _, _, _)
CalculateTotalCost(subscriptions, periodStart, periodEnd, now) ==
    IF subscriptions = <<>> THEN 0
    ELSE LET sub == Head(subscriptions)
         IN sub.PriceRub * CalculateIntersectionMonths(
                               sub.StartDate, sub.EndDate,
                               periodStart, periodEnd, now)
            + CalculateTotalCost(Tail(subscriptions), periodStart, periodEnd, now)

\* what StatsService.GetTotalCost returns over the tables in the month now
TotalCostStats(userID, serviceName, startDate, endDate, now) ==
    LET subscriptions == ScanRows(StatsCandidates(userID, serviceName,
                                                  startDate, endDate))
    IN [Subscriptions |-> subscriptions,
        UserID |-> userID, ServiceName |-> serviceName,
        StartDate |-> startDate, EndDate |-> endDate,
        SubscriptionsCount |-> Len(subscriptions),
        TotalCost |-> CalculateTotalCost(subscriptions, startDate, endDate, now)]

\* StatsService.GetTotalCost called in the month now; the call keeps the
\* month next to the returned stats
GetTotalCost(p, userID, serviceName, startDate, endDate, now) ==
    /\ CanStart(p)
    /\ call' = [call EXCEPT ![p] =
           [Done("stats", "ok", 0) EXCEPT
               !.view = Some([Now |-> now,
                              Stats |-> TotalCostStats(userID, serviceName,
                                                       startDate, endDate,
                                                       now)])]]
    /\ svcRace' = svcRace \ {p}
    /\ subRace' = subRace \ {p}
    /\ UNCHANGED <<service, subscription, service_seq, subscription_seq>>

----------------------------------------------------------------------------
(* The GetTotalStats handler: the period bounds parsed by ParseMonth, the   *)
(* call of the service, the period formatted by FormatDate                  *)

\* a time.Time by the fields time.Date is given
Date(year, month, day, hour, min, sec, nsec, loc) ==
    [Year |-> year, Month |-> month, Day |-> day, Hour |-> hour,
     Minute |-> min, Second |-> sec, Nanosecond |-> nsec, Location |-> loc]

\* the month of a time.Time
MonthOf(t) == MonthIndex(t.Year, t.Month)

\* the decimal digit of a number below ten
Digit(n) == <<"0", "1", "2", "3", "4", "5", "6", "7", "8", "9">>[n + 1]

\* StatsService.ParseMonth as a time.Time: time.Parse("01-2006", monthStr),
\* then time.Date(t.Year(), t.Month(), 1, 0, 0, 0, 0, time.UTC); the zero
\* time.Time with the error
ParseMonthTime(monthStr) ==
    IF /\ Len(monthStr) = 7
       /\ IsDigit(monthStr[1]) /\ IsDigit(monthStr[2])
       /\ monthStr[3] = "-"
       /\ IsDigit(monthStr[4]) /\ IsDigit(monthStr[5])
       /\ IsDigit(monthStr[6]) /\ IsDigit(monthStr[7])
       /\ (DigitVal[monthStr[1]] * 10 + DigitVal[monthStr[2]]) \in 1..12
    THEN [ok |-> TRUE,
          t  |-> Date(DigitVal[monthStr[4]] * 1000 + DigitVal[monthStr[5]] * 100
                      + DigitVal[monthStr[6]] * 10 + DigitVal[monthStr[7]],
                      DigitVal[monthStr[1]] * 10 + DigitVal[monthStr[2]],
                      1, 0, 0, 0, 0, "UTC")]
    ELSE [ok |-> FALSE, t |-> Date(1, 1, 1, 0, 0, 0, 0, "UTC")]

\* the layout "1-2006": the month without its leading zero
FormatDateUnpadded(date) ==
    IF ~IsSome(date) THEN EmptyStr
    ELSE LET t == Val(date)
         IN (IF t.Month >= 10 THEN <<Digit(t.Month \div 10)>> ELSE <<>>)
            \o <<Digit(t.Month % 10), "-",
                 Digit((t.Year \div 1000) % 10), Digit((t.Year \div 100) % 10),
                 Digit((t.Year \div 10) % 10), Digit(t.Year % 10)>>

\* StatsService.FormatDate: "" for nil, date.Format("01-2006") otherwise
FormatDate(date) ==
    IF ~IsSome(date) THEN EmptyStr
    ELSE LET t == Val(date)
         IN <<Digit(t.Month \div 10), Digit(t.Month % 10), "-",
              Digit((t.Year \div 1000) % 10), Digit((t.Year \div 100) % 10),
              Digit((t.Year \div 10) % 10), Digit(t.Year % 10)>>

\* getStringParam: nil for a query parameter that is absent or empty
GetStringParam(value) == IF value = EmptyStr THEN None ELSE Some(value)

\* uuid.Parse of the user_id parameter: the users are the strings that parse
ParseUUID(value) == [ok |-> value \in {"u1", "u2"}, id |-> value]

\* userID: set when the parameter is present (not "") and parses, nil
\* otherwise
UserIDParam(value) ==
    IF value # "" /\ ParseUUID(value).ok
    THEN Some(ParseUUID(value).id) ELSE None

\* a period bound parsed when present: the error, or the *time.Time
ParseParam(param) ==
    IF ~IsSome(param) THEN [ok |-> TRUE, date |-> None]
    ELSE LET parsed == ParseMonthTime(Val(param))
         IN [ok |-> parsed.ok,
             date |-> IF parsed.ok THEN Some(parsed.t) ELSE None]

\* the *time.Time handed to the service, as the month the service works on
MonthParam(date) == IF IsSome(date) THEN Some(MonthOf(Val(date))) ELSE None

\* GetTotalStats over the raw query values: 400 for a bound that does not
\* parse or an end before the start; otherwise the stats of the service
\* with the period formatted.  The call keeps the two bounds as received.
GetTotalStats(p, userID, serviceName, startDate, endDate, now) ==
    /\ CanStart(p)
    /\ LET start == ParseParam(GetStringParam(startDate))
           end == ParseParam(GetStringParam(endDate))
       IN IF \/ ~start.ok
             \/ ~end.ok
             \/ /\ IsSome(start.date) /\ IsSome(end.date)
                /\ Before(MonthOf(Val(end.date)), MonthOf(Val(start.date)))
          THEN call' = [call EXCEPT ![p] =
                   [Done("getstats", "ErrInvalidArguments", 0) EXCEPT
                       !.start = GetStringParam(startDate),
                       !.end = GetStringParam(endDate)]]
          ELSE call' = [call EXCEPT ![p] =
                   [Done("getstats", "ok", 0) EXCEPT
                       !.start = GetStringParam(startDate),
                       !.end = GetStringParam(endDate),
                       !.view = Some(
                           [Now |-> now,
                            Stats |-> TotalCostStats(UserIDParam(userID),
                                          GetStringParam(serviceName),
                                          MonthParam(start.date),
                                          MonthParam(end.date), now),
                            Period |-> [Start |-> FormatDate(start.date),
                                        End |-> FormatDate(end.date)]])]]
    /\ svcRace' = svcRace \ {p}
    /\ subRace' = subRace \ {p}
    /\ UNCHANGED <<service, subscription, service_seq, subscription_seq>>

----------------------------------------------------------------------------
(* StatsService.monthsBetween on time.Time values, with the calendar        *)

\* time.Date(t.Year(), t.Month(), 1, 0, 0, 0, 0, t.Location())
TruncateToMonth(t) == Date(t.Year, t.Month, 1, 0, 0, 0, 0, t.Location)

\* t.AddDate(0, 1, 0) of a first of month: the next month, January of the
\* next year after December
AddMonth(t) ==
    IF t.Month = 12 THEN [t EXCEPT !.Year = t.Year + 1, !.Month = 1]
    ELSE [t EXCEPT !.Month = t.Month + 1]

\* a.Before(b) of two firsts of month in one location
TimeBefore(a, b) ==
    a.Year < b.Year \/ (a.Year = b.Year /\ a.Month < b.Month)

\* the loop going on only while start.Before(end)
LoopWhileBefore(start, end) == TimeBefore(start, end)

\* the condition of the loop: start.Before(end) || start.Equal(end)
LoopCondition(start, end) == TimeBefore(start, end) \/ start = end

\* the loop: for cond { start = start.AddDate(0, 1, 0); months++ }
RECURSIVE MonthsLoop(_, _)
MonthsLoop(start, end) ==
    IF LoopCondition(start, end) THEN 1 + MonthsLoop(AddMonth(start), end) ELSE 0

\* monthsBetween
MonthsBetweenTimes(start, end) ==
    MonthsLoop(TruncateToMonth(start), TruncateToMonth(end))

\* a call of monthsBetween; the call keeps the two times and the result
MonthsBetweenCall(p, start, end) ==
    /\ CanStart(p)
    /\ call' = [call EXCEPT ![p] =
           [Done("months", "ok", 0) EXCEPT
               !.view = Some([Start |-> start, End |-> end,
                              Months |-> MonthsBetweenTimes(start, end)])]]
    /\ svcRace' = svcRace \ {p}
    /\ subRace' = subRace \ {p}
    /\ UNCHANGED <<service, subscription, service_seq, subscription_seq>>

----------------------------------------------------------------------------
(* The UpdateSubscription handler: the id and the body validated, then the  *)
(* call of SubscriptionService.UpdateSubscription with the body as decoded  *)

\* the validation without its last test: a body without fields passes
ValidateUpdateFieldsOnly(serviceName, price, startDate, endDate) ==
    IsSome(price) => Val(price) >= 0

\* validateUpdateSubscriptionRequest, TRUE when it returns nil: on its copy
\* of the body the name is trimmed and dropped when blank; validate.Struct
\* wants min=1 of a name and min=0 of a price that are present; at least one
\* of the four fields must be left
ValidateUpdateSubscriptionRequest(serviceName, price, startDate, endDate) ==
    LET name == IF IsSome(serviceName) /\ TrimSpace(Val(serviceName)) # EmptyStr
                THEN Some(TrimSpace(Val(serviceName))) ELSE None
    IN /\ (IsSome(name) => Len(Val(name)) >= 1)
       /\ (IsSome(price) => Val(price) >= 0)
       /\ ~(/\ ~IsSome(name) /\ ~IsSome(price)
             /\ ~IsSome(startDate) /\ ~IsSome(endDate))

\* the handler up to the call of the service: 400 for an id that is not
\* positive or a body that fails the validation, without any call; else the
\* service starts as in UpdateStart, the call keeping the fields of the body
UpdateSubscription(p, id, serviceName, price, startDate, endDate) ==
    /\ CanStart(p)
    /\ LET req == [IdleCall EXCEPT !.op = "update", !.id = id,
                                   !.name = serviceName, !.price = price,
                                   !.start = startDate, !.end = endDate]
       IN call' = [call EXCEPT ![p] =
              IF id <= 0
              THEN [req EXCEPT !.pc = "done", !.res = "ErrInvalidSubscriptionID"]
              ELSE IF ~ValidateUpdateSubscriptionRequest(serviceName, price,
                                                         startDate, endDate)
              THEN [req EXCEPT !.pc = "done", !.res = "ErrInvalidArguments"]
              ELSE [req EXCEPT !.pc = IF IsSome(serviceName) THEN "getsvc"
                                      ELSE "exec"]]
    /\ svcRace' = svcRace \ {p}
    /\ subRace' = subRace \ {p}
    /\ UNCHANGED <<service, subscription, service_seq, subscription_seq>>

\* the rest of the service call on the price and the dates of the body
UpdateSubscriptionExec(p) ==
    UpdateExec(p, call[p].price, call[p].start, call[p].end)

----------------------------------------------------------------------------
(* main: the server, the signal, srv.Shutdown with its deadline, then      *)
(* provider.Close.  The state of main is kept in call under "main", with   *)
(* the seconds each request has been in flight.                            *)

\* context.WithTimeout(context.Background(), 30*time.Second) of srv.Shutdown
ShutdownTimeout == 30

\* context.WithTimeout(r.Context(), 5*time.Second) of every handler
HandlerTimeout == 5

\* main once the server is started with ReadTimeout = WriteTimeout = timeout
MainStarted(timeout) ==
    [pc |-> "serving", timeout |-> timeout, elapsed |-> 0,
     age |-> [p \in Procs |-> 0]]

\* the listener is open until srv.Shutdown is called
Accepting == call["main"].pc \in {"serving", "signalled"}

\* the pool of the provider is open until provider.Close
PoolOpen == call["main"].pc # "closed"

\* the seconds a request can be in flight: its body is read within
\* ReadTimeout, its service call runs under the context of the handler
RequestLimit == call["main"].timeout + HandlerTimeout

\* sig := <-quit
ReceiveSignal ==
    /\ call["main"].pc = "serving"
    /\ call' = [call EXCEPT !["main"].pc = "signalled"]
    /\ UNCHANGED <<service, subscription, service_seq, subscription_seq,
                   svcRace, subRace>>

\* srv.Shutdown(ctx) is called: the listener is closed, the deadline runs
BeginShutdown ==
    /\ call["main"].pc = "signalled"
    /\ call' = [call EXCEPT !["main"].pc = "shutdown", !["main"].elapsed = 0]
    /\ UNCHANGED <<service, subscription, service_seq, subscription_seq,
                   svcRace, subRace>>

\* srv.Shutdown returns nil once no request is in flight, or ctx.Err() once
\* the deadline has passed ("server forced to shutdown"); main goes on in
\* both cases
ShutdownReturns ==
    /\ call["main"].pc = "shutdown"
    /\ \/ \A p \in Procs : ~InFlight(p)
       \/ call["main"].elapsed >= ShutdownTimeout
    /\ call' = [call EXCEPT !["main"].pc = "closing"]
    /\ UNCHANGED <<service, subscription, service_seq, subscription_seq,
                   svcRace, subRace>>

\* provider.Close(): p.db.Close()
ProviderClose ==
    /\ call["main"].pc = "closing"
    /\ call' = [call EXCEPT !["main"].pc = "closed"]
    /\ UNCHANGED <<service, subscription, service_seq, subscription_seq,
                   svcRace, subRace>>

\* five seconds pass: not while a request is at its limit, nor while
\* srv.Shutdown has to return
Tick ==
    /\ call["main"].pc # "closed"
    /\ \A p \in Procs : InFlight(p) => call["main"].age[p] < RequestLimit
    /\ ~(/\ call["main"].pc = "shutdown"
          /\ \/ \A p \in Procs : ~InFlight(p)
             \/ call["main"].elapsed >= ShutdownTimeout)
    /\ call' = [call EXCEPT
           !["main"].age = [p \in Procs |->
                               IF InFlight(p) THEN call["main"].age[p] + 5 ELSE 0],
           !["main"].elapsed = IF call["main"].pc = "shutdown"
                               THEN call["main"].elapsed + 5 ELSE 0]
    /\ UNCHANGED <<service, subscription, service_seq, subscription_seq,
                   svcRace, subRace>>

\* a request is accepted and its handler starts
AcceptCreate(p, startDate) ==
    /\ Accepting
    /\ call["main"].age[p] = 0
    /\ CreateStart(p, <<"N">>, 500, "u1", startDate, EmptyStr)

\* a statement of a request in flight on the open pool
Statement(p) ==
    /\ PoolOpen
    /\ \/ LookupService(p)
       \/ AddService(p)
       \/ InsertSubscription(p)

\* the deadline of the request passes: its read or its statement fails
RequestTimeout(p) ==
    /\ InFlight(p)
    /\ call["main"].age[p] >= RequestLimit
    /\ call' = [call EXCEPT ![p] = Done(call[p].op, "ErrDeadlineExceeded", 0)]
    /\ UNCHANGED <<service, subscription, service_seq, subscription_seq,
                   svcRace, subRace>>

\* a statement on the closed pool: "sql: database is closed"
StatementOnClosedPool(p) ==
    /\ InFlight(p)
    /\ ~PoolOpen
    /\ call' = [call EXCEPT ![p] = Done(call[p].op, "ErrDatabaseClosed", 0)]
    /\ UNCHANGED <<service, subscription, service_seq, subscription_seq,
                   svcRace, subRace>>

----------------------------------------------------------------------------
(* The requests the callers send *)

Str7(a, b, c, d, e, f) == <<a, b, "-", c, d, e, f>>

Jan2024 == Str7("0", "1", "2", "0", "2", "4")
Feb2024 == Str7("0", "2", "2", "0", "2", "4")
BadMonth == Str7("1", "3", "2", "0", "2", "4")

Users == {"u1"}
Ids == 1..MaxSubscriptionSeq

Opt(S) == {None} \cup {Some(x) : x \in S}

Init ==
    /\ service = {}
    /\ subscription = {}
    /\ service_seq = 0
    /\ subscription_seq = 0
    /\ call = [p \in Procs |-> IdleCall]
    /\ svcRace = {}
    /\ subRace = {}

\* the requests of the callers P over the given field values
Requests(P, names, cprices, starts, ends, unames, uprices) ==
    \/ \E p \in P, n \in names, pr \in cprices, u \in Users,
          s \in starts, e \in ends : CreateStart(p, n, pr, u, s, e)
    \/ \E p \in P : LookupService(p)
    \/ \E p \in P : AddService(p)
    \/ \E p \in P : InsertSubscription(p)
    \/ \E p \in P, id \in Ids, n \in unames : UpdateStart(p, id, n)
    \/ \E p \in P, pr \in uprices, s \in Opt(starts), e \in Opt(ends) :
          UpdateExec(p, pr, s, e)
    \/ \E p \in P, id \in Ids : DeleteSubscription(p, id)

\* Two callers racing on the keys: creates of service "N" in two start
\* months, open-ended, and updates that move a row to another start month
\* or to the service "S".
RaceNames == {<<"N">>}
RaceMonths == {Jan2024, Feb2024}
RaceEnds == {EmptyStr}
RaceUpdateNames == Opt({<<"S">>})

Next ==
    Requests(Procs, RaceNames, {500}, RaceMonths, RaceEnds, RaceUpdateNames, {None})

Spec == Init /\ [][Next]_vars

\* One caller, one service, every shape of the date fields.
DateMonths == {Jan2024, Feb2024, BadMonth}
DateEnds == {EmptyStr, NullStr, Jan2024, Feb2024}

DateNext ==
    \/ Requests({"p1"}, {<<"N">>}, {500}, DateMonths, DateEnds, {None}, {None})
    \/ \E id \in Ids : GetSubscription("p1", id)

DateSpec == Init /\ [][DateNext]_vars

\* One caller, padded and plain service names, open-ended and ended
\* subscriptions, updates of the price and the dates.
NameNames == {<<"N">>, <<" ", "N">>}
NameMonths == {Jan2024, Feb2024}
NameEnds == {EmptyStr, Feb2024}
NameUpdatePrices == Opt({600})

NameNext ==
    \/ Requests({"p1"}, NameNames, {500}, NameMonths, NameEnds,
                {None}, NameUpdatePrices)
    \/ \E id \in Ids : GetSubscription("p1", id)

NameSpec == Init /\ [][NameNext]_vars

\* One caller, updates of every field: a second service, a second price,
\* the start month and the end month.
FieldNames == {<<"N">>}
FieldMonths == {Jan2024, Feb2024}
FieldEnds == {EmptyStr, Feb2024}
FieldUpdateNames == Opt({<<"S">>})
FieldUpdatePrices == Opt({600})

FieldNext ==
    \/ Requests({"p1"}, FieldNames, {500}, FieldMonths, FieldEnds,
                FieldUpdateNames, FieldUpdatePrices)
    \/ \E id \in Ids : GetSubscription("p1", id)

FieldSpec == Init /\ [][FieldNext]_vars

\* Two callers creating, updating and deleting subscriptions of the service
\* "N" in one start month while the service is deleted.
ServiceIds == 1..MaxServiceSeq

ServiceNext ==
    \/ Requests(Procs, {<<"N">>}, {500}, {Jan2024}, {EmptyStr}, Opt({<<"N">>}), {None})
    \/ \E p \in Procs, id \in ServiceIds : CountReferences(p, id)
    \/ \E p \in Procs : DeleteService(p)

ServiceSpec == Init /\ [][ServiceNext]_vars

\* One caller listing a store of two users and two services: every table
\* the constraints admit over the ids, every filter, page sizes and offsets
\* up to the number of rows.
ListUsers == {"u1", "u2"}
ListServices == {[id |-> 1, name |-> <<"N">>], [id |-> 2, name |-> <<"S">>]}
ListRows ==
    {[id |-> id, user_id |-> u, service_id |-> sv.id, price_rub |-> 500,
      start_date |-> ParseMonth(Jan2024).t, end_date |-> None] :
        id \in Ids, u \in ListUsers, sv \in ListServices}
ListStores ==
    {S \in SUBSET ListRows :
        \A r \in S : /\ UniqueOK(r, S \ {r})
                     /\ \A o \in S \ {r} : o.id # r.id}
ListLimits == 1..MaxSubscriptionSeq
ListOffsets == 0..MaxSubscriptionSeq

ListInit ==
    /\ service = ListServices
    /\ subscription \in ListStores
    /\ service_seq = Cardinality(ListServices)
    /\ subscription_seq = MaxSubscriptionSeq
    /\ call = [p \in Procs |-> IdleCall]
    /\ svcRace = {}
    /\ subRace = {}

ListNext ==
    \/ \E userID \in Opt(ListUsers), serviceName \in Opt({<<"N">>, <<"S">>}),
          limit \in ListLimits, offset \in ListOffsets :
          ListCount("p1", userID, serviceName, limit, offset)
    \/ ListData("p1")

ListSpec == ListInit /\ [][ListNext]_vars

\* One caller asking for the total cost over a store of two users and two
\* services: every table the constraints admit over the ids with starts in
\* 01-2024 and 06-2024 and ends absent, 03-2024 or 12-2024; periods bounded
\* by 03-2024 and 06-2024 or unbounded; the current month 03-2024 or
\* 06-2024 (the image of the Dockerfile has no zone database: time.Now()
\* is in UTC).
Mar2024 == Str7("0", "3", "2", "0", "2", "4")
Jun2024 == Str7("0", "6", "2", "0", "2", "4")
Dec2024 == Str7("1", "2", "2", "0", "2", "4")
StatsStarts == {ParseMonth(Jan2024).t, ParseMonth(Jun2024).t}
StatsEnds == Opt({ParseMonth(Mar2024).t, ParseMonth(Dec2024).t})
StatsPeriods == Opt({ParseMonth(Mar2024).t, ParseMonth(Jun2024).t})
StatsNows == {ParseMonth(Mar2024).t, ParseMonth(Jun2024).t}
StatsRows(ids) ==
    {r \in [id : ids, user_id : ListUsers, service_id : {1, 2},
            price_rub : {500}, start_date : StatsStarts, end_date : StatsEnds] :
        CheckConstraints(r)}
StatsStores ==
    UNION {{S \in {{f[id] : id \in ids} :
                      f \in {g \in [ids -> StatsRows(ids)] :
                                \A id \in ids : g[id].id = id}} :
               \A r \in S : UniqueOK(r, S \ {r})} :
           ids \in SUBSET Ids}

StatsInit ==
    /\ service = ListServices
    /\ subscription \in StatsStores
    /\ service_seq = Cardinality(ListServices)
    /\ subscription_seq = MaxSubscriptionSeq
    /\ call = [p \in Procs |-> IdleCall]
    /\ svcRace = {}
    /\ subRace = {}

\* each behaviour is one request over one store
StatsNext ==
    /\ call["p1"].pc = "idle"
    /\ \E userID \in Opt({"u1"}), serviceName \in Opt({<<"N">>}),
          startDate \in StatsPeriods, endDate \in StatsPeriods,
          now \in StatsNows :
          GetTotalCost("p1", userID, serviceName, startDate, endDate, now)

StatsSpec == StatsInit /\ [][StatsNext]_vars

\* One caller of the GetTotalStats handler over the stores of at most one
\* row: start_date over the strings MM-YYYY with months 00..13 and 19 and
\* the years 0024, 0029, 2024 and 2029, and over strings of another shape;
\* end_date absent, 12-2024, 12-2029 or 13-2024.
PeriodStrings ==
    {Str7(a, b, c, "0", "2", f) :
        a \in {"0", "1"}, b \in {"0", "1", "2", "3", "9"},
        c \in {"0", "2"}, f \in {"4", "9"}}
    \cup {EmptyStr, <<"1", "-", "2", "0", "2", "4">>,
          <<"0", "1", "/", "2", "0", "2", "4">>,
          <<"0", "1", "-", "2", "4">>,
          <<"J", "a", "-", "2", "0", "2", "4">>,
          <<"0", "1", "-", "2", "0", "2", "4", "0">>}
PeriodEnds == {EmptyStr, Dec2024, Str7("1", "2", "2", "0", "2", "9"), BadMonth}

PeriodInit ==
    /\ service = ListServices
    /\ subscription \in {S \in StatsStores : Cardinality(S) <= 1}
    /\ service_seq = Cardinality(ListServices)
    /\ subscription_seq = MaxSubscriptionSeq
    /\ call = [p \in Procs |-> IdleCall]
    /\ svcRace = {}
    /\ subRace = {}

\* each behaviour is one request over one store
PeriodNext ==
    /\ call["p1"].pc = "idle"
    /\ \E userID \in {"", "u1", "x"}, serviceName \in {EmptyStr, <<"N">>},
          startDate \in PeriodStrings, endDate \in PeriodEnds :
          GetTotalStats("p1", userID, serviceName, startDate, endDate,
                        ParseMonth(Jun2024).t)

PeriodSpec == PeriodInit /\ [][PeriodNext]_vars

\* One caller creating open-ended subscriptions of service "N" and sending
\* update requests through the handler: ids from 0, a name absent, blank
\* or "S", a price absent, negative or 600, a start absent or 02-2024, an
\* end absent or the clear sentinel.
HandlerIds == 0..MaxSubscriptionSeq
HandlerNames == Opt({<<" ">>, <<"S">>})
HandlerPrices == Opt({0 - 1, 600})
HandlerStarts == Opt({Feb2024})
HandlerEnds == Opt({EmptyStr})

HandlerNext ==
    \/ \E s \in {Jan2024, Feb2024} :
          CreateStart("p1", <<"N">>, 500, "u1", s, EmptyStr)
    \/ LookupService("p1")
    \/ AddService("p1")
    \/ InsertSubscription("p1")
    \/ \E id \in HandlerIds, n \in HandlerNames, pr \in HandlerPrices,
          s \in HandlerStarts, e \in HandlerEnds :
          UpdateSubscription("p1", id, n, pr, s, e)
    \/ UpdateSubscriptionExec("p1")

HandlerSpec == Init /\ [][HandlerNext]_vars

\* Two requests served by main until the signal: http_server.timeout of
\* the configuration is 5s, its default, or 30s.
HTTPTimeouts == {5, 30}

ShutdownInit ==
    /\ service = {}
    /\ subscription = {}
    /\ service_seq = 0
    /\ subscription_seq = 0
    /\ call \in {[p \in Procs \cup {"main"} |->
                     IF p = "main" THEN MainStarted(timeout) ELSE IdleCall] :
                 timeout \in HTTPTimeouts}
    /\ svcRace = {}
    /\ subRace = {}

ShutdownNext ==
    \/ ReceiveSignal
    \/ BeginShutdown
    \/ ShutdownReturns
    \/ ProviderClose
    \/ Tick
    \/ \E p \in Procs : AcceptCreate(p, Jan2024)
    \/ \E p \in Procs : Statement(p)
    \/ \E p \in Procs : RequestTimeout(p)
    \/ \E p \in Procs : StatementOnClosedPool(p)

ShutdownSpec == ShutdownInit /\ [][ShutdownNext]_vars

\* monthsBetween over the times of three years, on the first and on a
\* later day of the month.
MonthsTimes ==
    {Date(year, month, day, 0, 0, 0, 0, "UTC") :
        year \in {2023, 2024, 2025}, month \in 1..12, day \in {1, 15}}

MonthsNext ==
    /\ call["p1"].pc = "idle"
    /\ \E start \in MonthsTimes, end \in MonthsTimes :
           MonthsBetweenCall("p1", start, end)

MonthsSpec == Init /\ [][MonthsNext]_vars

\* One call of one caller on a store of the service "N" with or without a
\* subscription of it; the tables the call starts on are kept beside the
\* calls, under "before".
AtomicServices == {[id |-> 1, name |-> <<"N">>]}
AtomicRows ==
    {[id |-> 1, user_id |-> "u1", service_id |-> 1, price_rub |-> 500,
      start_date |-> ParseMonth(Jan2024).t, end_date |-> None]}
AtomicNames == {<<"N">>, <<"S">>}
AtomicMonths == {Jan2024, Feb2024, BadMonth}
AtomicEnds == {EmptyStr, Jan2024, Feb2024}

AtomicInit ==
    /\ service = AtomicServices
    /\ subscription \in SUBSET AtomicRows
    /\ service_seq = Cardinality(service)
    /\ subscription_seq = Cardinality(subscription)
    /\ call = [p \in Procs \cup {"before"} |->
                  IF p = "before"
                  THEN [service |-> service, subscription |-> subscription]
                  ELSE IdleCall]
    /\ svcRace = {}
    /\ subRace = {}

AtomicNext ==
    \/ /\ call["p1"].pc = "idle"
       /\ \E n \in AtomicNames, s \in AtomicMonths, e \in AtomicEnds :
              CreateStart("p1", n, 500, "u1", s, e)
    \/ /\ call["p1"].pc = "idle"
       /\ \E id \in Ids, n \in Opt(AtomicNames) : UpdateStart("p1", id, n)
    \/ LookupService("p1")
    \/ AddService("p1")
    \/ InsertSubscription("p1")
    \/ \E pr \in Opt({600}), s \in Opt(AtomicMonths), e \in Opt(AtomicEnds) :
          UpdateExec("p1", pr, s, e)

AtomicSpec == AtomicInit /\ [][AtomicNext]_vars

\* One caller listing every subscription, page by page, while another
\* caller creates, updates and deletes subscriptions of the service "N".
ListRaceNext ==
    \/ \E limit \in ListLimits, offset \in ListOffsets :
          ListCount("p1", None, None, limit, offset)
    \/ ListData("p1")
    \/ Requests({"p2"}, {<<"N">>}, {500}, {Jan2024, Feb2024}, {EmptyStr},
                {None}, {None})

ListRaceSpec == Init /\ [][ListRaceNext]_vars

----------------------------------------------------------------------------
(* Claims about concurrent creation and the uniqueness of the key *)

\* C1: when two CreateSubscription calls for the same (user, service, start
\* month) run concurrently, exactly one returns a new id and the other
\* returns AlreadyExists: once both racing calls have returned, one result
\* is "ok" with the id of a stored row and the other is
\* ErrSubscriptionAlreadyExists.
C1_ExactlyOneCreated ==
    \A p \in subRace : \A q \in subRace \ {p} :
        call[p].pc = "done" /\ call[q].pc = "done" =>
            \/ /\ call[p].res = "ok" /\ call[p].rid \in Ids
               /\ call[q].res = "ErrSubscriptionAlreadyExists"
            \/ /\ call[q].res = "ok" /\ call[q].rid \in Ids
               /\ call[p].res = "ErrSubscriptionAlreadyExists"

\* C2: when two callers run GetOrCreateServiceID concurrently for a name
\* that has no row yet, the insert of each of them succeeds with the id of
\* the one row of that name; the unique conflict of the later insert is
\* never returned as an error.
C2_GetOrCreateRaceSucceeds ==
    [][\A p \in svcRace :
          AddService(p) =>
              /\ call'[p].res # "ErrServiceNameExists"
              /\ IsSome(call'[p].serviceID)
              /\ \A s \in service' :
                     s.name = TrimSpace(Val(call[p].name)) =>
                         s.id = Val(call'[p].serviceID)]_vars

\* C3: in every reachable state, under any interleaving of creates, updates
\* (of the start month or of the service) and deletes, no two stored
\* subscriptions share (user_id, service_id, start_date).
C3_KeyUnique ==
    \A a \in subscription : \A b \in subscription :
        (/\ a.user_id = b.user_id /\ a.service_id = b.service_id
         /\ a.start_date = b.start_date) => a = b

\* C3 witness: two rows of one user are stored, one of them moved to the
\* service "S" by an update, and an update that would have moved a row onto
\* the other's key was refused by the unique index.
C3_Witness ==
    /\ Cardinality(subscription) = 2
    /\ \E r \in subscription : \E s \in service :
           s.id = r.service_id /\ s.name = <<"S">>
    /\ \E p \in Procs : call[p].op = "update" /\ call[p].res = "UniqueViolation"

----------------------------------------------------------------------------
(* Claims about the dates *)

\* C4: in every reachable state, after any sequence of creates and updates
\* (of the start date only, of the end date only, with the clear sentinel),
\* every stored subscription has end_date null or end_date >= start_date.
C4_EndNotBeforeStart ==
    \A r \in subscription : IsSome(r.end_date) => Val(r.end_date) >= r.start_date

\* C4 witness: a row with an end date is stored and the last update, which
\* passed the service's validation, was refused by the CHECK constraint.
C4_Witness ==
    /\ \E r \in subscription : IsSome(r.end_date)
    /\ \E p \in Procs : call[p].op = "update" /\ call[p].res = "CheckViolation"

\* the three reasons of a validation error of CreateSubscription
MalformedStart(startDate) == ~ParseMonth(startDate).ok
MalformedEnd(endDate) == endDate # EmptyStr /\ ~ParseMonth(endDate).ok
EndBeforeStart(startDate, endDate) ==
    /\ ParseMonth(startDate).ok /\ endDate # EmptyStr /\ ParseMonth(endDate).ok
    /\ ParseMonth(endDate).t < ParseMonth(startDate).t

\* C6: CreateSubscription returns ErrValidation exactly when the start date
\* is malformed, or the end date is non-empty and malformed, or the end
\* month is strictly before the start month; it does so in its first step,
\* with no statement issued (tables and sequences unchanged); otherwise
\* (equal months and the empty end date included) it goes on to the service
\* lookup.
C6_CreateValidation ==
    [][\A p \in Procs, n \in {<<"N">>}, u \in Users, s \in DateMonths, e \in DateEnds :
          CreateStart(p, n, 500, u, s, e) =>
              IF MalformedStart(s) \/ MalformedEnd(e) \/ EndBeforeStart(s, e)
              THEN /\ call'[p].pc = "done" /\ call'[p].res = "ErrValidation"
                   /\ UNCHANGED <<service, subscription, service_seq, subscription_seq>>
              ELSE /\ call'[p].pc = "getsvc" /\ call'[p].res = ""]_vars

\* C6 witness: a subscription whose end month equals its start month was
\* accepted and stored, and a later create was refused with ErrValidation.
C6_Witness ==
    /\ \E r \in subscription : r.end_date = Some(r.start_date)
    /\ \E p \in Procs : call[p].op = "create" /\ call[p].res = "ErrValidation"

\* C9: an update that supplies only endDate, as "" or "null", on a row that
\* has an end date succeeds and leaves end_date null, so the row read back
\* has no end date.
C9_ClearEndDate ==
    [][\A p \in Procs, e \in {EmptyStr, NullStr} :
          (/\ UpdateExec(p, None, None, Some(e))
           /\ ~IsSome(call[p].serviceID)
           /\ \E r \in subscription : r.id = call[p].id /\ IsSome(r.end_date))
          => /\ call'[p].res = "ok"
             /\ \A r \in subscription' : r.id = call[p].id => r.end_date = None
             /\ \A v \in SelectFrom(subscription', service', call[p].id) :
                    v.EndDate = None]_vars

\* the end date row r has after an update supplying endDate (None: absent)
FinalEnd(r, endDate) ==
    IF ~IsSome(endDate) THEN r.end_date
    ELSE IF IsClear(Val(endDate)) THEN None
    ELSE Some(ParseMonth(Val(endDate)).t)

\* the start date row r has after an update supplying startDate
FinalStart(r, startDate) ==
    IF IsSome(startDate) THEN ParseMonth(Val(startDate)).t ELSE r.start_date

\* C10: an update of an existing row with well-formed dates returns
\* ErrValidation and leaves the table unchanged whenever the final end date
\* (supplied, else stored) is before the final start date (supplied, else
\* stored).
C10_FinalValuesValidated ==
    [][\A p \in Procs, s \in Opt(DateMonths), e \in Opt(DateEnds) :
          \A r \in subscription :
              (/\ UpdateExec(p, None, s, e)
               /\ r.id = call[p].id
               /\ (IsSome(s) => ParseMonth(Val(s)).ok)
               /\ (IsSome(e) /\ ~IsClear(Val(e)) => ParseMonth(Val(e)).ok)
               /\ IsSome(FinalEnd(r, e))
               /\ Val(FinalEnd(r, e)) < FinalStart(r, s))
              => /\ call'[p].res = "ErrValidation"
                 /\ subscription' = subscription]_vars

----------------------------------------------------------------------------
(* Claims about the stored fields *)

\* C5: when a row with the key (user, service name, start month) of a
\* create request is stored, the request returns
\* ErrSubscriptionAlreadyExists and leaves the subscription table unchanged.
\* The service of a name is the row of the trimmed name.
C5_DuplicateCreateRefused ==
    [][\A p \in Procs :
          (/\ call[p].op = "create" /\ InFlight(p)
           /\ call'[p].pc = "done"
           /\ KeyStored(call[p].user, TrimSpace(Val(call[p].name)),
                        ParseMonth(Val(call[p].start)).t))
          => /\ call'[p].res = "ErrSubscriptionAlreadyExists"
             /\ subscription' = subscription]_vars

\* what GetSubscription is to return for the create request c stored under
\* id, its service name being `name`
SubmittedView(c, id, name) ==
    [ID |-> id, ServiceName |-> name, Price |-> Val(c.price), UserID |-> c.user,
     StartDate |-> ParseMonth(Val(c.start)).t,
     EndDate |-> IF Val(c.end) = EmptyStr THEN None
                 ELSE Some(ParseMonth(Val(c.end)).t)]

\* the step is an update or a delete of row X
Targets(X) ==
    \E p \in Procs :
        \/ DeleteSubscription(p, X)
        \/ /\ call[p].op = "update" /\ call[p].pc = "exec" /\ call[p].id = X
           /\ call'[p].pc = "done"

\* what is read back for a stored row X is the same after every step that
\* does not target X, and a GetSubscription(X) step returns it
ViewKept ==
    \A X \in Ids :
        SelectSubscription(X) # {} /\ ~Targets(X) =>
            /\ SelectSubscription(X)' = SelectSubscription(X)
            /\ \A p \in Procs :
                   GetSubscription(p, X) =>
                       /\ call'[p].res = "ok"
                       /\ call'[p].view \in {Some(v) : v \in SelectSubscription(X)}

\* C7 as stated: a successful create under id X makes GetSubscription(X)
\* return exactly the submitted service name, price, user, start month and
\* end month, until an update or delete targets X.
C7_RoundTripExactName ==
    [][/\ \A p \in Procs :
             InsertSubscription(p) /\ call'[p].res = "ok" =>
                 SelectFrom(subscription', service', call'[p].rid) =
                     {SubmittedView(call[p], call'[p].rid, Val(call[p].name))}
       /\ ViewKept]_vars

\* C7 amended: a successful create under id X makes GetSubscription(X)
\* return the submitted service name with its surrounding whitespace
\* trimmed, and the submitted price, user, start month and end month (none
\* when none was given), until an update or delete targets X.
C7_RoundTripTrimmedName ==
    [][/\ \A p \in Procs :
             InsertSubscription(p) /\ call'[p].res = "ok" =>
                 SelectFrom(subscription', service', call'[p].rid) =
                     {SubmittedView(call[p], call'[p].rid,
                                    TrimSpace(Val(call[p].name)))}
       /\ ViewKept]_vars

\* C7 witness: a GetSubscription returned a created row with its end month
\* after a second subscription was created.
C7_Witness ==
    /\ Cardinality(subscription) = 2
    /\ \E p \in Procs :
           /\ call[p].op = "get" /\ call[p].res = "ok"
           /\ Val(call[p].view).ServiceName = <<"N">>
           /\ Val(call[p].view).Price = 500
           /\ Val(call[p].view).EndDate = Some(ParseMonth(Feb2024).t)

\* C8: a successful update changes only the fields it supplies: the target
\* row keeps its id, its user and every field absent from the request, and
\* every other row is kept as it is.
C8_OnlySuppliedFieldsChange ==
    [][\A p \in Procs :
          call[p].pc = "exec" /\ call'[p].res = "ok" =>
          \A pr \in FieldUpdatePrices, s \in Opt(FieldMonths), e \in Opt(FieldEnds) :
          UpdateExec(p, pr, s, e) =>
              /\ \A r \in subscription : r.id # call[p].id => r \in subscription'
              /\ \A r \in subscription' : r.id # call[p].id => r \in subscription
              /\ \E old \in subscription : \E new \in subscription' :
                     /\ old.id = call[p].id /\ new.id = call[p].id
                     /\ \A r \in subscription' : r.id = new.id => r = new
                     /\ new.user_id = old.user_id
                     /\ (~IsSome(call[p].name) => new.service_id = old.service_id)
                     /\ (~IsSome(pr) => new.price_rub = old.price_rub)
                     /\ (~IsSome(s) => new.start_date = old.start_date)
                     /\ (~IsSome(e) => new.end_date = old.end_date)]_vars

\* C8 witness: an update that supplied a price has succeeded on a row that
\* keeps its end date, next to a row it left at the created price.
C8_Witness ==
    /\ \E p \in Procs : call[p].op = "update" /\ call[p].res = "ok"
    /\ \E r \in subscription : r.price_rub = 600 /\ IsSome(r.end_date)
    /\ \E r \in subscription : r.price_rub = 500

----------------------------------------------------------------------------
(* Claims about update conflicts and deletion *)

\* the service the row has after an update by request c (its service id is
\* resolved when a name was supplied)
FinalService(r, c) == IF IsSome(c.serviceID) THEN Val(c.serviceID) ELSE r.service_id

\* C11: an update that would give its row the (user_id, service_id,
\* start_date) of another stored row, and breaks no other constraint,
\* returns ErrSubscriptionAlreadyExists and leaves the table unchanged.
C11_UpdateConflictAlreadyExists ==
    [][\A p \in Procs :
          call[p].pc = "exec" /\ call'[p].pc = "done" =>
          \A pr \in FieldUpdatePrices, s \in Opt(FieldMonths) :
              \A r \in subscription :
                  (/\ UpdateExec(p, pr, s, None)
                   /\ r.id = call[p].id
                   /\ (IsSome(r.end_date) => Val(r.end_date) >= FinalStart(r, s))
                   /\ \E o \in subscription :
                          /\ o.id # r.id /\ o.user_id = r.user_id
                          /\ o.service_id = FinalService(r, call[p])
                          /\ o.start_date = FinalStart(r, s))
                  => /\ call'[p].res = "ErrSubscriptionAlreadyExists"
                     /\ subscription' = subscription]_vars

\* C12: DeleteSubscription(id) returns ErrSubscriptionNotFound and changes
\* no table when no row has the id; otherwise it succeeds, removes exactly
\* the row of that id and leaves every other row and every service row
\* (the deleted row's service included) as they are.
C12_DeleteOnlyThatRow ==
    [][\A p \in Procs, id \in Ids :
          DeleteSubscription(p, id) =>
              /\ service' = service
              /\ IF \E r \in subscription : r.id = id
                 THEN /\ call'[p].res = "ok"
                      /\ \A r \in subscription : r.id = id <=> r \notin subscription'
                      /\ subscription' \subseteq subscription
                 ELSE /\ call'[p].res = "ErrSubscriptionNotFound"
                      /\ subscription' = subscription]_vars

\* C12 witness: a delete has succeeded, another row is still stored and the
\* service "S", which only the deleted row referred to, is still there.
C12_Witness ==
    /\ \E p \in Procs : call[p].op = "delete" /\ call[p].res = "ok"
    /\ Cardinality(subscription) = 1
    /\ \E sv \in service :
           sv.name = <<"S">> /\ \A r \in subscription : r.service_id # sv.id

----------------------------------------------------------------------------
(* Claims about listing *)

\* the number of rows of the set with an ID below that of v
Rank(v, rows) == Cardinality({w \in rows : w.ID < v.ID})

\* C14: ListSubscriptions returns the rows matching the userID and
\* serviceName filters in ascending id, without the first offset of them
\* and at most limit of them, and the total is the size of the whole
\* filtered set whatever limit and offset are.
C14_ListPage ==
    [][\A p \in Procs :
          ListData(p) =>
              LET q == Val(call[p].view)
                  matching == {v \in SelectAll :
                                  /\ (IsSome(q.UserID) => v.UserID = Val(q.UserID))
                                  /\ (IsSome(q.ServiceName) =>
                                         v.ServiceName = Val(q.ServiceName))}
                  rows == Val(call'[p].view).Rows
              IN /\ Val(call'[p].view).Total = Cardinality(matching)
                 /\ \A i \in 1..Len(rows) : \A j \in 1..Len(rows) :
                        i < j => rows[i].ID < rows[j].ID
                 /\ {rows[i] : i \in 1..Len(rows)} =
                        {v \in matching :
                            /\ Rank(v, matching) >= q.Offset
                            /\ Rank(v, matching) < q.Offset + q.Limit}]_vars

\* C14 witness: a list with limit 1 over two matching rows has returned one
\* row, the second by id, and the total 2.
C14_Witness ==
    \E p \in Procs :
        /\ call[p].op = "list" /\ call[p].pc = "done"
        /\ Val(call[p].view).Total = 2
        /\ Len(Val(call[p].view).Rows) = 1
        /\ Val(call[p].view).Rows[1].ID = 2

----------------------------------------------------------------------------
(* Claims about the total cost *)

\* the stats of a finished GetTotalCost call and the month it ran in
StatsDone(p) == call[p].op = "stats" /\ call[p].pc = "done"
StatsOf(p) == Val(call[p].view).Stats
NowOf(p) == Val(call[p].view).Now

\* the number of months from the month a to the month b, both included
MonthsIncluded(a, b) == Cardinality(a..b)

\* price times the months of the intersection of a subscription with the
\* period, as the contract words it
Contribution(sub, periodStart, periodEnd, now) ==
    LET intersectionStart ==
            IF IsSome(periodStart) /\ Val(periodStart) > sub.StartDate
            THEN Val(periodStart) ELSE sub.StartDate
        intersectionEnd ==
            IF IsSome(sub.EndDate)
            THEN IF IsSome(periodEnd) /\ Val(periodEnd) < Val(sub.EndDate)
                 THEN Val(periodEnd) ELSE Val(sub.EndDate)
            ELSE IF IsSome(periodEnd) THEN Val(periodEnd) ELSE now
    IN IF intersectionStart > intersectionEnd THEN 0
       ELSE sub.PriceRub * MonthsIncluded(intersectionStart, intersectionEnd)

\* the sum of the contributions of a set of subscriptions
RECURSIVE SumOfContributions(_, _, _, _)
SumOfContributions(subs, periodStart, periodEnd, now) ==
    IF subs = {} THEN 0
    ELSE LET sub == CHOOSE v \in subs : TRUE
         IN Contribution(sub, periodStart, periodEnd, now)
            + SumOfContributions(subs \ {sub}, periodStart, periodEnd, now)

C16_IndependentOfNow ==
    \A p \in Procs :
        (StatsDone(p) /\ IsSome(StatsOf(p).EndDate)) =>
            LET st == StatsOf(p)
            IN \A now \in StatsNows :
                   LET other == TotalCostStats(st.UserID, st.ServiceName,
                                               st.StartDate, st.EndDate, now)
                   IN /\ other.TotalCost = st.TotalCost
                      /\ other.SubscriptionsCount = st.SubscriptionsCount

\* C16 witness: an open-ended subscription of 01-2024 asked in 03-2024 over
\* 03-2024..06-2024 is charged the four months to periodEnd.
C16_Witness ==
    \E p \in Procs :
        /\ StatsDone(p)
        /\ \E r \in subscription :
               /\ subscription = {r}
               /\ r.start_date = ParseMonth(Jan2024).t
               /\ r.end_date = None
        /\ NowOf(p) = ParseMonth(Mar2024).t
        /\ StatsOf(p).StartDate = Some(ParseMonth(Mar2024).t)
        /\ StatsOf(p).EndDate = Some(ParseMonth(Jun2024).t)
        /\ StatsOf(p).SubscriptionsCount = 1
        /\ StatsOf(p).TotalCost = 2000

\* the price of every stored subscription of the user and the service asked
\* for, times the months of its own lifetime: to its end_date when it has
\* one, to the current month otherwise
RECURSIVE SumOfLifetimes(_, _)
SumOfLifetimes(rows, now) ==
    IF rows = {} THEN 0
    ELSE LET r == CHOOSE v \in rows : TRUE
         IN r.price_rub * MonthsIncluded(r.start_date,
                              IF IsSome(r.end_date) THEN Val(r.end_date) ELSE now)
            + SumOfLifetimes(rows \ {r}, now)

EarliestStart(subs) ==
    (CHOOSE v \in subs : \A w \in subs : v.StartDate <= w.StartDate).StartDate

\* C18: without start_date and end_date the cost is that of the period from
\* the earliest subscription start to the current month, both included: no
\* subscription is charged a month after the current one.
C18_ChargedToCurrentMonthAtMost ==
    \A p \in Procs :
        (StatsDone(p) /\ StatsOf(p).StartDate = None
                      /\ StatsOf(p).EndDate = None) =>
            LET st == StatsOf(p)
                subs == StatsCandidates(st.UserID, st.ServiceName, None, None)
            IN st.TotalCost =
                   IF subs = {} THEN 0
                   ELSE SumOfContributions(subs, Some(EarliestStart(subs)),
                                           Some(NowOf(p)), NowOf(p))

----------------------------------------------------------------------------
(* Claims about the month strings *)

\* a month string MM-YYYY: a month 01..12 and a year of four digits
ValidMonthString(s) ==
    /\ Len(s) = 7
    /\ s[3] = "-"
    /\ \A i \in {1, 2, 4, 5, 6, 7} : IsDigit(s[i])
    /\ <<s[1], s[2]>> \in {<<"0", "1">>, <<"0", "2">>, <<"0", "3">>, <<"0", "4">>,
                            <<"0", "5">>, <<"0", "6">>, <<"0", "7">>, <<"0", "8">>,
                            <<"0", "9">>, <<"1", "0">>, <<"1", "1">>, <<"1", "2">>}

\* the period bounds a finished GetTotalStats call received
BoundsOf(p) == {Val(o) : o \in {q \in {call[p].start, call[p].end} : IsSome(q)}}

\* C19: for every valid month string s, ParseMonth(s) formatted as MM-YYYY
\* is s again, and ParseMonth(s) is the first day of that month at 00:00
\* UTC; the period GetTotalStats answers with is the one it was asked.
C19_ParseFormatRoundTrip ==
    \A p \in Procs :
        (call[p].op = "getstats" /\ call[p].pc = "done") =>
            /\ \A s \in BoundsOf(p) :
                   ValidMonthString(s) =>
                       LET parsed == ParseMonthTime(s)
                       IN /\ parsed.ok
                          /\ FormatDate(Some(parsed.t)) = s
                          /\ parsed.t.Day = 1
                          /\ parsed.t.Hour = 0 /\ parsed.t.Minute = 0
                          /\ parsed.t.Second = 0 /\ parsed.t.Nanosecond = 0
                          /\ parsed.t.Location = "UTC"
                          /\ Digit(parsed.t.Month \div 10) = s[1]
                          /\ Digit(parsed.t.Month % 10) = s[2]
                          /\ ParseMonth(s).ok
                          /\ ParseMonth(s).t = MonthOf(parsed.t)
            /\ call[p].res = "ok" =>
                   /\ \A s \in BoundsOf(p) : ValidMonthString(s)
                   /\ IsSome(call[p].start) =>
                          Val(call[p].view).Period.Start = Val(call[p].start)
                   /\ IsSome(call[p].end) =>
                          Val(call[p].view).Period.End = Val(call[p].end)

\* C19 witness: GetTotalStats asked for 09-0024..12-2024 has answered with
\* that period.
C19_Witness ==
    \E p \in Procs :
        /\ call[p].op = "getstats" /\ call[p].pc = "done" /\ call[p].res = "ok"
        /\ call[p].start = Some(Str7("0", "9", "0", "0", "2", "4"))
        /\ call[p].end = Some(Dec2024)
        /\ Val(call[p].view).Period =
               [Start |-> Str7("0", "9", "0", "0", "2", "4"), End |-> Dec2024]

----------------------------------------------------------------------------
(* Claims about the update handler *)

\* a call whose body has none of service name, price, start and end date
NoField(c) ==
    ~IsSome(c.name) /\ ~IsSome(c.price) /\ ~IsSome(c.start) /\ ~IsSome(c.end)

\* C20: an update request without service name, price, start date and end
\* date is answered with a validation error at once, before any step of
\* the service or the repositories and with the tables as they were; no
\* update without a field ends in success.
C20_ZeroFieldUpdateRejected ==
    [][\A p \in Procs :
          /\ (/\ CanStart(p) /\ call'[p] # call[p]
               /\ call'[p].op = "update" /\ NoField(call'[p])) =>
                 /\ call'[p].pc = "done"
                 /\ call'[p].res \in {"ErrInvalidArguments",
                                       "ErrInvalidSubscriptionID"}
                 /\ UNCHANGED <<service, subscription, service_seq,
                                subscription_seq>>
          /\ (/\ call[p].op = "update" /\ call[p].pc = "exec"
               /\ call'[p].res = "ok") => ~NoField(call[p])]_vars

\* C20 witness: with the row 1 stored, an update of 1 without any field
\* has been answered with the validation error.
C20_Witness ==
    \E p \in Procs :
        /\ call[p].op = "update" /\ call[p].pc = "done"
        /\ call[p].id = 1 /\ NoField(call[p])
        /\ call[p].res = "ErrInvalidArguments"
        /\ \E r \in subscription : r.id = 1

----------------------------------------------------------------------------
(* Claims about the resolution of service names *)

\* C21: GetOrCreateServiceID called for a name that is empty after trimming,
\* from a create or an update, ends the call with the validation error and
\* adds no service row.
C21_EmptyNameIsValidationError ==
    [][\A p \in Procs :
          (/\ call[p].pc \in {"getsvc", "addsvc"}
           /\ TrimSpace(Val(call[p].name)) = EmptyStr
           /\ call'[p].pc = "done") =>
              /\ call'[p].res = "ErrValidation"
              /\ service' = service]_vars

\* C22: a call of GetOrCreateServiceID for a name that is not blank
\* succeeds with the id of the one service row named by the trimmed name,
\* whatever calls came before, and no two service rows share a name.
C22_GetOrCreateIdempotent ==
    [][\A p \in Procs :
          (/\ call[p].pc \in {"getsvc", "addsvc"}
           /\ TrimSpace(Val(call[p].name)) # EmptyStr
           /\ call'[p].pc \notin {"getsvc", "addsvc"}) =>
              /\ call'[p].pc # "done"
              /\ IsSome(call'[p].serviceID)
              /\ \A sv \in service' :
                     sv.name = TrimSpace(Val(call[p].name))
                         <=> sv.id = Val(call'[p].serviceID)]_vars

----------------------------------------------------------------------------
(* Claims about the shutdown *)

\* C23: once srv.Shutdown has been called after the signal no new request
\* starts, and provider.Close runs only when no request is in flight.
C23_PoolClosedAfterRequests ==
    [][/\ \A p \in Procs :
             (~Accepting /\ ~InFlight(p)) => ~InFlight(p)'
       /\ ProviderClose => \A p \in Procs : ~InFlight(p)]_vars

----------------------------------------------------------------------------
(* Claims about the candidates of the total cost *)

\* the stored subscriptions of the user and the service asked for that
\* overlap the period: started by periodEnd, if given, and open or ended
\* no earlier than periodStart, if given
Overlapping(userID, serviceName, periodStart, periodEnd) ==
    {r \in subscription :
        /\ (IsSome(userID) => r.user_id = Val(userID))
        /\ (IsSome(serviceName) =>
               \E sv \in service : sv.id = r.service_id
                                    /\ sv.name = Val(serviceName))
        /\ (IsSome(periodEnd) => r.start_date <= Val(periodEnd))
        /\ (IsSome(periodStart) =>
               (r.end_date = None \/ Val(r.end_date) >= Val(periodStart)))}

\* C24: the subscriptions GetTotalCost works on, and counts in
\* subscriptionsCount, are exactly the stored ones that match the filters
\* and overlap the period, each once.
C24_CandidatesOverlapPeriod ==
    \A p \in Procs :
        StatsDone(p) =>
            LET st == StatsOf(p)
                expected == Overlapping(st.UserID, st.ServiceName,
                                        st.StartDate, st.EndDate)
            IN /\ {sub.ID : sub \in {st.Subscriptions[i] :
                                        i \in 1..Len(st.Subscriptions)}}
                      = {r.id : r \in expected}
               /\ Len(st.Subscriptions) = Cardinality(expected)
               /\ st.SubscriptionsCount = Cardinality(expected)

\* C24 witness: a subscription started in 01-2024, before the period
\* 03-2024..06-2024, and still active in it, is the one candidate.
C24_Witness ==
    \E p \in Procs :
        /\ StatsDone(p)
        /\ StatsOf(p).StartDate = Some(ParseMonth(Mar2024).t)
        /\ StatsOf(p).EndDate = Some(ParseMonth(Jun2024).t)
        /\ StatsOf(p).SubscriptionsCount = 1
        /\ Cardinality(subscription) = 2
        /\ StatsOf(p).Subscriptions[1].StartDate = ParseMonth(Jan2024).t
        /\ StatsOf(p).Subscriptions[1].EndDate = Some(ParseMonth(Dec2024).t)

\* the sum of the prices of a sequence of candidates
RECURSIVE SumOfPrices(_)
SumOfPrices(subs) ==
    IF subs = <<>> THEN 0 ELSE Head(subs).PriceRub + SumOfPrices(Tail(subs))

\* C25: in a call whose periodStart is not after its periodEnd, every
\* subscription counted in subscriptionsCount is charged at least one
\* month, the open-ended ones that start after the current month included.
C25_NoZeroMonthCandidate ==
    \A p \in Procs :
        (/\ StatsDone(p)
         /\ (IsSome(StatsOf(p).StartDate) /\ IsSome(StatsOf(p).EndDate) =>
                 Val(StatsOf(p).StartDate) <= Val(StatsOf(p).EndDate))) =>
            LET st == StatsOf(p)
            IN /\ \A i \in 1..Len(st.Subscriptions) :
                      CalculateIntersectionMonths(
                          st.Subscriptions[i].StartDate,
                          st.Subscriptions[i].EndDate,
                          st.StartDate, st.EndDate, NowOf(p)) >= 1
               /\ st.TotalCost >= SumOfPrices(st.Subscriptions)

----------------------------------------------------------------------------
(* Claims about monthsBetween *)

\* C26: for a not after b, monthsBetween(a, b) is the number of calendar
\* months from a to b with both ends, 12 * (year(b) - year(a))
\* + (month(b) - month(a)) + 1, also across years; the count over month
\* numbers used for the costs is the same number.
C26_MonthsBetweenClosedForm ==
    \A p \in Procs :
        (call[p].op = "months" /\ call[p].pc = "done") =>
            LET a == Val(call[p].view).Start
                b == Val(call[p].view).End
                months == Val(call[p].view).Months
            IN /\ (a.Year < b.Year \/ (a.Year = b.Year /\ a.Month <= b.Month)) =>
                      months = 12 * (b.Year - a.Year) + (b.Month - a.Month) + 1
               /\ months = MonthsBetween(MonthOf(a), MonthOf(b))

\* C26 witness: monthsBetween of 11-2023 and 02-2024 has returned 4.
C26_Witness ==
    \E p \in Procs :
        /\ call[p].op = "months" /\ call[p].pc = "done"
        /\ Val(call[p].view).Start.Year = 2023
        /\ Val(call[p].view).Start.Month = 11
        /\ Val(call[p].view).End.Year = 2024
        /\ Val(call[p].view).End.Month = 2
        /\ Val(call[p].view).Months = 4

----------------------------------------------------------------------------
(* Claims about DeleteService racing with the writers of subscriptions *)

\* C27: under every interleaving of DeleteService with CreateSubscription
\* and UpdateSubscription calls on the same service, every stored
\* subscription's service_id names an existing service row.
C27_ReferencedServiceExists ==
    \A r \in subscription : \E sv \in service : sv.id = r.service_id

\* C27 witness: a DeleteService whose reference check found nothing was
\* refused at its DELETE by a subscription stored in between.
C27_Witness ==
    \E p \in Procs :
        /\ call[p].op = "delsvc" /\ call[p].pc = "done"
        /\ call[p].res \notin {"ok", "ErrServiceInUse", "ErrServiceNotFound"}
        /\ \E r \in subscription : \E sv \in service : sv.id = r.service_id

\* C28: a DeleteService whose DELETE is blocked by the foreign key, a
\* subscription having been stored after its reference check, returns
\* ErrServiceInUse.
C28_BlockedDeleteIsServiceInUse ==
    [][\A p \in Procs :
          (/\ call[p].pc = "delsvc"
           /\ call'[p].pc = "done"
           /\ \E r \in subscription : r.service_id = call[p].id)
          => call'[p].res = "ErrServiceInUse"]_vars

----------------------------------------------------------------------------
(* Claims about failed calls *)

\* C29: a CreateSubscription or UpdateSubscription call that returns an
\* error leaves the subscription table and the service table as they were
\* before the call; a failed call leaves no new service row.
C29_FailedCallChangesNothing ==
    \A p \in Procs :
        (/\ call[p].pc = "done"
         /\ call[p].op \in {"create", "update"}
         /\ call[p].res # "ok")
        => /\ service = call["before"].service
           /\ subscription = call["before"].subscription

----------------------------------------------------------------------------
(* Claims about listing while the table changes *)

\* C30: in every result of ListSubscriptions that holds rows, the offset
\* plus the number of rows returned is at most the total returned, also
\* when other callers create and delete subscriptions between the count
\* query and the data query.
C30_PageInsideTotal ==
    [][\A p \in Procs :
          (/\ call[p].op = "list" /\ call[p].pc = "listdata"
           /\ call'[p].pc = "done"
           /\ Len(Val(call'[p].view).Rows) > 0)
          => Val(call[p].view).Offset + Len(Val(call'[p].view).Rows)
                 <= Val(call'[p].view).Total]_vars

====
